---- MODULE Spec2Model ----
(***************************************************************************)
(* Model of include/common/mini-clist.h: the circular doubly-linked list   *)
(* macros (LIST_ADD, LIST_ADDQ, LIST_DEL, LIST_DEL_INIT, ...) and their    *)
(* "locked" variants (LIST_ADD_LOCKED, LIST_ADDQ_LOCKED, LIST_DEL_LOCKED,  *)
(* LIST_POP_LOCKED), which claim single pointer slots with an atomic       *)
(* exchange against LLIST_BUSY.                                            *)
(*                                                                         *)
(* Memory is a set of struct list cells, each with the two slots n and p.  *)
(* Every access of a locked macro to shared memory (one _HA_ATOMIC_XCHG or *)
(* one store) is one step of the calling thread; the steps of different    *)
(* threads interleave freely.  The unsynchronized macros are used by one   *)
(* caller at a time, so each of them is one step.                          *)
(***************************************************************************)
EXTENDS Naturals, FiniteSets, Sequences, TLC

\* ------------------------------------------------------------------ bounds
NumElems == 3        \* list elements besides the head
NumThreads == 2      \* threads that call the locked macros
MaxSeqOps == 4       \* unsynchronized inserts counted by the sequential specification
MaxRaceCalls == 3    \* locked calls made in the specification of the insert/remove race

\* --------------------------------------------------------------- addresses
NULL == 0
LLIST_BUSY == 1
lh == LLIST_BUSY + 1      \* address of the list head
Elems == (lh + 1)..(lh + NumElems)
Nodes == {lh} \cup Elems
Threads == 1..NumThreads
SlotNames == {"n", "p"}
Slots == Nodes \X SlotNames

VARIABLES
    mem,        \* mem[x] = [n |-> ..., p |-> ...]: struct list at address x
    pc,         \* pc[t]: where thread t stands inside a locked macro
    loc,        \* loc[t]: the macro's argument el and locals n, p, n2, p2, _ret
    owner,      \* owner[s]: threads that claimed slot s and did not store back
    held,       \* held[t][s]: the value t read when it claimed slot s, NULL once stored back
    members,    \* nodes whose insertion completed and whose removal did not
    dup,        \* nodes inserted while members, or popped while not members
    calls,      \* number of locked calls started, where the specification counts them
    inserts,    \* number of completed unsynchronized inserts
    removals,   \* number of completed unsynchronized removals
    last,       \* the last unsynchronized operation, <<name, node>>
    snap,       \* mem as it was before the last LIST_ADD, LIST_ADDQ or LIST_DEL
    log,        \* the unsynchronized inserts since the last removal, <<name, node>> each
    seen,       \* the items the body was run on, if the last operation was a traversal
    scene       \* which locked calls overlap, where the specification keeps track of it

vars == <<mem, pc, loc, owner, held, members, dup, calls, inserts, removals, last, snap, log, seen,
          scene>>
auxvars == <<calls, inserts, removals, last, snap, log, seen, scene>>

NoLocals == [el |-> NULL, n |-> NULL, p |-> NULL, n2 |-> NULL, p2 |-> NULL, ret |-> NULL]

\* LIST_INIT(l): (l)->n = (l)->p = (l)
InitCell(l) == [n |-> l, p |-> l]

Init ==
    /\ mem = [x \in Nodes |-> InitCell(x)]
    /\ pc = [t \in Threads |-> "idle"]
    /\ loc = [t \in Threads |-> NoLocals]
    /\ owner = [s \in Slots |-> {}]
    /\ held = [t \in Threads |-> [s \in Slots |-> NULL]]
    /\ members = {}
    /\ dup = {}
    /\ calls = 0
    /\ inserts = 0
    /\ removals = 0
    /\ last = <<"init", lh>>
    /\ snap = [x \in Nodes |-> InitCell(x)]
    /\ log = <<>>
    /\ seen = <<>>
    /\ scene = "other"

\* ------------------------------------------------------------- primitives
\* _HA_ATOMIC_XCHG(&x->s, LLIST_BUSY): the slot becomes LLIST_BUSY and the caller
\* reads mem[x][s], in one step.  Reading a non-busy value makes t the owner.
AtomicXchg(t, x, s) ==
    /\ mem' = [mem EXCEPT ![x][s] = LLIST_BUSY]
    /\ owner' = [owner EXCEPT ![<<x, s>>] =
                     IF mem[x][s] # LLIST_BUSY THEN @ \cup {t} ELSE @]
    /\ held' = [held EXCEPT ![t][<<x, s>>] =
                    IF mem[x][s] # LLIST_BUSY THEN mem[x][s] ELSE @]

\* x->s = v; __ha_barrier_store(): a plain store, which ends t's claim of the slot
Store(t, x, s, v) ==
    /\ mem' = [mem EXCEPT ![x][s] = v]
    /\ owner' = [owner EXCEPT ![<<x, s>>] = @ \ {t}]
    /\ held' = [held EXCEPT ![t][<<x, s>>] = NULL]

\* the next iteration of while (1): the locals of the loop body are fresh
Retry(t, label) ==
    /\ pc' = [pc EXCEPT ![t] = label]
    /\ loc' = [loc EXCEPT ![t] = [NoLocals EXCEPT !.el = loc[t].el]]

Goto(t, label) == pc' = [pc EXCEPT ![t] = label]

\* break: the macro is over
Return(t) ==
    /\ pc' = [pc EXCEPT ![t] = "idle"]
    /\ loc' = [loc EXCEPT ![t] = NoLocals]

AddPcs == {"add_n", "add_p", "add_undo", "add_el_n", "add_el_p", "add_link_n", "add_link_p"}
AddqPcs == {"addq_p", "addq_n", "addq_undo", "addq_el_n", "addq_el_p", "addq_link_p",
            "addq_link_n"}

\* the usage contract of the locked family: what the callers do, not the macros
Detached(x) == mem[x] = InitCell(x)
Inserting(x) == \E u \in Threads : pc[u] \in AddPcs \cup AddqPcs /\ loc[u].el = x
Targeted(x) == \E u \in Threads : pc[u] # "idle" /\ loc[u].el = x
AllIdle == \A t \in Threads : pc[t] = "idle"

Call(t, label, x) ==
    /\ pc[t] = "idle"
    /\ pc' = [pc EXCEPT ![t] = label]
    /\ loc' = [loc EXCEPT ![t] = [NoLocals EXCEPT !.el = x]]
    /\ UNCHANGED <<mem, owner, held, members, dup, inserts, removals, log, seen>>

\* --------------------------------------------------------- LIST_ADD_LOCKED
\* a caller inserts a node it holds alone, and only a detached one
StartAdd(t, x) == Detached(x) /\ ~Targeted(x) /\ Call(t, "add_n", x)

\* n = _HA_ATOMIC_XCHG(&(lh)->n, LLIST_BUSY); if (n == LLIST_BUSY) continue;
AddClaimHead(t) ==
    /\ pc[t] = "add_n"
    /\ AtomicXchg(t, lh, "n")
    /\ IF mem[lh].n = LLIST_BUSY
          THEN Retry(t, "add_n")
          ELSE /\ loc' = [loc EXCEPT ![t].n = mem[lh].n]
               /\ Goto(t, "add_p")
    /\ UNCHANGED <<members, dup, auxvars>>

\* mutant: the second exchange is made on n->n
AddClaimNextOnNext(t) ==
    /\ pc[t] = "add_p"
    /\ AtomicXchg(t, loc[t].n, "n")
    /\ IF mem[loc[t].n].n = LLIST_BUSY
          THEN Goto(t, "add_undo") /\ UNCHANGED loc
          ELSE /\ loc' = [loc EXCEPT ![t].p = mem[loc[t].n].n]
               /\ Goto(t, "add_el_n")
    /\ UNCHANGED <<members, dup, auxvars>>

\* p = _HA_ATOMIC_XCHG(&n->p, LLIST_BUSY); if (p == LLIST_BUSY) { ... }
AddClaimNext(t) ==
    /\ pc[t] = "add_p"
    /\ AtomicXchg(t, loc[t].n, "p")
    /\ IF mem[loc[t].n].p = LLIST_BUSY
          THEN Goto(t, "add_undo") /\ UNCHANGED loc
          ELSE /\ loc' = [loc EXCEPT ![t].p = mem[loc[t].n].p]
               /\ Goto(t, "add_el_n")
    /\ UNCHANGED <<members, dup, auxvars>>

\* (lh)->n = n; __ha_barrier_store(); continue;
AddUndo(t) ==
    /\ pc[t] = "add_undo"
    /\ Store(t, lh, "n", loc[t].n)
    /\ Retry(t, "add_n")
    /\ UNCHANGED <<members, dup, auxvars>>

\* (el)->n = n;
AddSetElNext(t) ==
    /\ pc[t] = "add_el_n"
    /\ Store(t, loc[t].el, "n", loc[t].n)
    /\ Goto(t, "add_el_p")
    /\ UNCHANGED <<loc, members, dup, auxvars>>

\* (el)->p = p; __ha_barrier_store();
AddSetElPrev(t) ==
    /\ pc[t] = "add_el_p"
    /\ Store(t, loc[t].el, "p", loc[t].p)
    /\ Goto(t, "add_link_n")
    /\ UNCHANGED <<loc, members, dup, auxvars>>

\* n->p = (el); __ha_barrier_store();
AddLinkNext(t) ==
    /\ pc[t] = "add_link_n"
    /\ Store(t, loc[t].n, "p", loc[t].el)
    /\ Goto(t, "add_link_p")
    /\ UNCHANGED <<loc, members, dup, auxvars>>

\* the ghost accounting of a completed insertion of x
Inserted(x) ==
    /\ members' = members \cup {x}
    /\ dup' = IF x \in members THEN dup \cup {x} ELSE dup

\* the ghost accounting of a completed removal of x that unlinked it
Removed(x) ==
    /\ members' = members \ {x}
    /\ dup' = IF x \notin members THEN dup \cup {x} ELSE dup

\* p->n = (el); __ha_barrier_store(); break;
AddLinkPrev(t) ==
    /\ pc[t] = "add_link_p"
    /\ Store(t, loc[t].p, "n", loc[t].el)
    /\ Inserted(loc[t].el)
    /\ Return(t)
    /\ UNCHANGED auxvars

LIST_ADD_LOCKED(t) ==
    \/ AddClaimHead(t)
    \/ AddClaimNext(t)
    \/ AddUndo(t)
    \/ AddSetElNext(t)
    \/ AddSetElPrev(t)
    \/ AddLinkNext(t)
    \/ AddLinkPrev(t)

\* -------------------------------------------------------- LIST_ADDQ_LOCKED
StartAddq(t, x) == Detached(x) /\ ~Targeted(x) /\ Call(t, "addq_p", x)

\* p = _HA_ATOMIC_XCHG(&(lh)->p, LLIST_BUSY); if (p == LLIST_BUSY) continue;
AddqClaimHead(t) ==
    /\ pc[t] = "addq_p"
    /\ AtomicXchg(t, lh, "p")
    /\ IF mem[lh].p = LLIST_BUSY
          THEN Retry(t, "addq_p")
          ELSE /\ loc' = [loc EXCEPT ![t].p = mem[lh].p]
               /\ Goto(t, "addq_n")
    /\ UNCHANGED <<members, dup, auxvars>>

\* n = _HA_ATOMIC_XCHG(&p->n, LLIST_BUSY); if (n == LLIST_BUSY) { ... }
AddqClaimPrev(t) ==
    /\ pc[t] = "addq_n"
    /\ AtomicXchg(t, loc[t].p, "n")
    /\ IF mem[loc[t].p].n = LLIST_BUSY
          THEN Goto(t, "addq_undo") /\ UNCHANGED loc
          ELSE /\ loc' = [loc EXCEPT ![t].n = mem[loc[t].p].n]
               /\ Goto(t, "addq_el_n")
    /\ UNCHANGED <<members, dup, auxvars>>

\* (lh)->p = p; __ha_barrier_store(); continue;
AddqUndo(t) ==
    /\ pc[t] = "addq_undo"
    /\ Store(t, lh, "p", loc[t].p)
    /\ Retry(t, "addq_p")
    /\ UNCHANGED <<members, dup, auxvars>>

\* (el)->n = n;
AddqSetElNext(t) ==
    /\ pc[t] = "addq_el_n"
    /\ Store(t, loc[t].el, "n", loc[t].n)
    /\ Goto(t, "addq_el_p")
    /\ UNCHANGED <<loc, members, dup, auxvars>>

\* mutant: el->p gets n
AddqSetElPrevAsNext(t) ==
    /\ pc[t] = "addq_el_p"
    /\ Store(t, loc[t].el, "p", loc[t].n)
    /\ Goto(t, "addq_link_p")
    /\ UNCHANGED <<loc, members, dup, auxvars>>

\* (el)->p = p; __ha_barrier_store();
AddqSetElPrev(t) ==
    /\ pc[t] = "addq_el_p"
    /\ Store(t, loc[t].el, "p", loc[t].p)
    /\ Goto(t, "addq_link_p")
    /\ UNCHANGED <<loc, members, dup, auxvars>>

\* p->n = (el); __ha_barrier_store();
AddqLinkPrev(t) ==
    /\ pc[t] = "addq_link_p"
    /\ Store(t, loc[t].p, "n", loc[t].el)
    /\ Goto(t, "addq_link_n")
    /\ UNCHANGED <<loc, members, dup, auxvars>>

\* n->p = (el); __ha_barrier_store(); break;
AddqLinkNext(t) ==
    /\ pc[t] = "addq_link_n"
    /\ Store(t, loc[t].n, "p", loc[t].el)
    /\ Inserted(loc[t].el)
    /\ Return(t)
    /\ UNCHANGED auxvars

LIST_ADDQ_LOCKED(t) ==
    \/ AddqClaimHead(t)
    \/ AddqClaimPrev(t)
    \/ AddqUndo(t)
    \/ AddqSetElNext(t)
    \/ AddqSetElPrev(t)
    \/ AddqLinkPrev(t)
    \/ AddqLinkNext(t)

\* --------------------------------------------------------- LIST_DEL_LOCKED
DelPcs == {"del_n", "del_p", "del_p2", "del_n2", "del_undo_p2", "del_undo_p", "del_undo_n",
           "del_unlink_n", "del_unlink_p", "del_el_p", "del_el_n"}

\* LIST_DEL_LOCKED(x) by a caller that respects the contract: not while x is being inserted
StartDelAny(t, x) == Call(t, "del_n", x)
StartDel(t, x) == ~Inserting(x) /\ StartDelAny(t, x)

\* n = _HA_ATOMIC_XCHG(&(el)->n, LLIST_BUSY); if (n == LLIST_BUSY) continue;
DelClaimElNext(t) ==
    /\ pc[t] = "del_n"
    /\ AtomicXchg(t, loc[t].el, "n")
    /\ IF mem[loc[t].el].n = LLIST_BUSY
          THEN Retry(t, "del_n")
          ELSE /\ loc' = [loc EXCEPT ![t].n = mem[loc[t].el].n]
               /\ Goto(t, "del_p")
    /\ UNCHANGED <<members, dup, auxvars>>

\* where the code goes after if (p != (el)) { ... } was passed or skipped
DelAfterPrev(t) == IF loc[t].n # loc[t].el THEN "del_n2" ELSE "del_unlink_n"

\* p = _HA_ATOMIC_XCHG(&(el)->p, LLIST_BUSY); if (p == LLIST_BUSY) { ... }
\* then the test if (p != (el))
DelClaimElPrev(t) ==
    /\ pc[t] = "del_p"
    /\ AtomicXchg(t, loc[t].el, "p")
    /\ IF mem[loc[t].el].p = LLIST_BUSY
          THEN Goto(t, "del_undo_n") /\ UNCHANGED loc
          ELSE /\ loc' = [loc EXCEPT ![t].p = mem[loc[t].el].p]
               /\ Goto(t, IF mem[loc[t].el].p # loc[t].el THEN "del_p2" ELSE DelAfterPrev(t))
    /\ UNCHANGED <<members, dup, auxvars>>

\* p2 = _HA_ATOMIC_XCHG(&p->n, LLIST_BUSY); if (p2 == LLIST_BUSY) { ... }
\* then the test if (n != (el))
DelClaimPrevNext(t) ==
    /\ pc[t] = "del_p2"
    /\ AtomicXchg(t, loc[t].p, "n")
    /\ IF mem[loc[t].p].n = LLIST_BUSY
          THEN Goto(t, "del_undo_p") /\ UNCHANGED loc
          ELSE /\ loc' = [loc EXCEPT ![t].p2 = mem[loc[t].p].n]
               /\ Goto(t, DelAfterPrev(t))
    /\ UNCHANGED <<members, dup, auxvars>>

\* n2 = _HA_ATOMIC_XCHG(&n->p, LLIST_BUSY); if (n2 == LLIST_BUSY) { if (p2 != NULL) ... }
DelClaimNextPrev(t) ==
    /\ pc[t] = "del_n2"
    /\ AtomicXchg(t, loc[t].n, "p")
    /\ IF mem[loc[t].n].p = LLIST_BUSY
          THEN /\ Goto(t, IF loc[t].p2 # NULL THEN "del_undo_p2" ELSE "del_undo_p")
               /\ UNCHANGED loc
          ELSE /\ loc' = [loc EXCEPT ![t].n2 = mem[loc[t].n].p]
               /\ Goto(t, "del_unlink_n")
    /\ UNCHANGED <<members, dup, auxvars>>

\* p->n = p2;
DelUndoPrevNext(t) ==
    /\ pc[t] = "del_undo_p2"
    /\ Store(t, loc[t].p, "n", loc[t].p2)
    /\ Goto(t, "del_undo_p")
    /\ UNCHANGED <<loc, members, dup, auxvars>>

\* (el)->p = p;
DelUndoElPrev(t) ==
    /\ pc[t] = "del_undo_p"
    /\ Store(t, loc[t].el, "p", loc[t].p)
    /\ Goto(t, "del_undo_n")
    /\ UNCHANGED <<loc, members, dup, auxvars>>

\* (el)->n = n; __ha_barrier_store(); continue;
DelUndoElNext(t) ==
    /\ pc[t] = "del_undo_n"
    /\ Store(t, loc[t].el, "n", loc[t].n)
    /\ Retry(t, "del_n")
    /\ UNCHANGED <<members, dup, auxvars>>

\* n->p = p;
DelUnlinkNext(t) ==
    /\ pc[t] = "del_unlink_n"
    /\ Store(t, loc[t].n, "p", loc[t].p)
    /\ Goto(t, "del_unlink_p")
    /\ UNCHANGED <<loc, members, dup, auxvars>>

\* p->n = n; __ha_barrier_store();
DelUnlinkPrev(t) ==
    /\ pc[t] = "del_unlink_p"
    /\ Store(t, loc[t].p, "n", loc[t].n)
    /\ Goto(t, "del_el_p")
    /\ UNCHANGED <<loc, members, dup, auxvars>>

\* (el)->p = (el);
DelInitElPrev(t) ==
    /\ pc[t] = "del_el_p"
    /\ Store(t, loc[t].el, "p", loc[t].el)
    /\ Goto(t, "del_el_n")
    /\ UNCHANGED <<loc, members, dup, auxvars>>

\* (el)->n = (el); __ha_barrier_store(); break;
\* the call removed el from a list unless it found el->n == el->p == el
DelInitElNext(t) ==
    /\ pc[t] = "del_el_n"
    /\ Store(t, loc[t].el, "n", loc[t].el)
    /\ IF loc[t].n # loc[t].el \/ loc[t].p # loc[t].el
          THEN Removed(loc[t].el)
          ELSE UNCHANGED <<members, dup>>
    /\ Return(t)
    /\ UNCHANGED auxvars

LIST_DEL_LOCKED(t) ==
    \/ DelClaimElNext(t)
    \/ DelClaimElPrev(t)
    \/ DelClaimPrevNext(t)
    \/ DelClaimNextPrev(t)
    \/ DelUndoPrevNext(t)
    \/ DelUndoElPrev(t)
    \/ DelUndoElNext(t)
    \/ DelUnlinkNext(t)
    \/ DelUnlinkPrev(t)
    \/ DelInitElPrev(t)
    \/ DelInitElNext(t)

\* --------------------------------------------------------- LIST_POP_LOCKED
PopPcs == {"pop_n", "pop_empty", "pop_p", "pop_n2", "pop_p2", "pop_undo_n", "pop_undo_p",
           "pop_undo_h", "pop_head", "pop_next", "pop_el_p", "pop_el_n", "pop_ret"}

StartPop(t) == Call(t, "pop_n", NULL)

\* n = _HA_ATOMIC_XCHG(&(lh)->n, LLIST_BUSY); if (n == LLIST_BUSY) continue;
\* then the test if (n == (lh))
PopClaimHead(t) ==
    /\ pc[t] = "pop_n"
    /\ AtomicXchg(t, lh, "n")
    /\ IF mem[lh].n = LLIST_BUSY
          THEN Retry(t, "pop_n")
          ELSE /\ loc' = [loc EXCEPT ![t].n = mem[lh].n]
               /\ Goto(t, IF mem[lh].n = lh THEN "pop_empty" ELSE "pop_p")
    /\ UNCHANGED <<members, dup, auxvars>>

\* mutant: the empty branch returns without storing the head back into head.n
PopEmptyNoRestore(t) ==
    /\ pc[t] = "pop_empty"
    /\ loc' = [loc EXCEPT ![t].ret = NULL]
    /\ Goto(t, "pop_ret")
    /\ UNCHANGED <<mem, owner, held, members, dup, auxvars>>

\* mutant: the empty branch lacks its break and goes round the loop again
PopEmptyNoBreak(t) ==
    /\ pc[t] = "pop_empty"
    /\ Store(t, lh, "n", lh)
    /\ Retry(t, "pop_n")
    /\ UNCHANGED <<members, dup, auxvars>>

\* (lh)->n = lh; __ha_barrier_store(); _ret = NULL; break;
PopEmpty(t) ==
    /\ pc[t] = "pop_empty"
    /\ Store(t, lh, "n", lh)
    /\ loc' = [loc EXCEPT ![t].ret = NULL]
    /\ Goto(t, "pop_ret")
    /\ UNCHANGED <<members, dup, auxvars>>

\* p = _HA_ATOMIC_XCHG(&n->p, LLIST_BUSY); if (p == LLIST_BUSY) { ... }
PopClaimElPrev(t) ==
    /\ pc[t] = "pop_p"
    /\ AtomicXchg(t, loc[t].n, "p")
    /\ IF mem[loc[t].n].p = LLIST_BUSY
          THEN Goto(t, "pop_undo_h") /\ UNCHANGED loc
          ELSE /\ loc' = [loc EXCEPT ![t].p = mem[loc[t].n].p]
               /\ Goto(t, "pop_n2")
    /\ UNCHANGED <<members, dup, auxvars>>

\* mutant: n->n is read with a plain load, so the slot is not claimed
PopClaimElNextNoClaim(t) ==
    /\ pc[t] = "pop_n2"
    /\ IF mem[loc[t].n].n = LLIST_BUSY
          THEN Goto(t, "pop_undo_p") /\ UNCHANGED loc
          ELSE /\ loc' = [loc EXCEPT ![t].n2 = mem[loc[t].n].n]
               /\ Goto(t, "pop_p2")
    /\ UNCHANGED <<mem, owner, held, members, dup, auxvars>>

\* n2 = _HA_ATOMIC_XCHG(&n->n, LLIST_BUSY); if (n2 == LLIST_BUSY) { ... }
PopClaimElNext(t) ==
    /\ pc[t] = "pop_n2"
    /\ AtomicXchg(t, loc[t].n, "n")
    /\ IF mem[loc[t].n].n = LLIST_BUSY
          THEN Goto(t, "pop_undo_p") /\ UNCHANGED loc
          ELSE /\ loc' = [loc EXCEPT ![t].n2 = mem[loc[t].n].n]
               /\ Goto(t, "pop_p2")
    /\ UNCHANGED <<members, dup, auxvars>>

\* p2 = _HA_ATOMIC_XCHG(&n2->p, LLIST_BUSY); if (p2 == LLIST_BUSY) { ... }
PopClaimNextPrev(t) ==
    /\ pc[t] = "pop_p2"
    /\ AtomicXchg(t, loc[t].n2, "p")
    /\ IF mem[loc[t].n2].p = LLIST_BUSY
          THEN Goto(t, "pop_undo_n") /\ UNCHANGED loc
          ELSE /\ loc' = [loc EXCEPT ![t].p2 = mem[loc[t].n2].p]
               /\ Goto(t, "pop_head")
    /\ UNCHANGED <<members, dup, auxvars>>

\* n->n = n2;
PopUndoElNext(t) ==
    /\ pc[t] = "pop_undo_n"
    /\ Store(t, loc[t].n, "n", loc[t].n2)
    /\ Goto(t, "pop_undo_p")
    /\ UNCHANGED <<loc, members, dup, auxvars>>

\* n->p = p; __ha_barrier_store();
PopUndoElPrev(t) ==
    /\ pc[t] = "pop_undo_p"
    /\ Store(t, loc[t].n, "p", loc[t].p)
    /\ Goto(t, "pop_undo_h")
    /\ UNCHANGED <<loc, members, dup, auxvars>>

\* (lh)->n = n; __ha_barrier_store(); continue;
PopUndoHead(t) ==
    /\ pc[t] = "pop_undo_h"
    /\ Store(t, lh, "n", loc[t].n)
    /\ Retry(t, "pop_n")
    /\ UNCHANGED <<members, dup, auxvars>>

\* (lh)->n = n2;
PopSetHead(t) ==
    /\ pc[t] = "pop_head"
    /\ Store(t, lh, "n", loc[t].n2)
    /\ Goto(t, "pop_next")
    /\ UNCHANGED <<loc, members, dup, auxvars>>

\* mutant: the successor's p gets back the value that was claimed from it
PopSetNextPrevStale(t) ==
    /\ pc[t] = "pop_next"
    /\ Store(t, loc[t].n2, "p", loc[t].p2)
    /\ Goto(t, "pop_el_p")
    /\ UNCHANGED <<loc, members, dup, auxvars>>

\* (n2)->p = (lh); __ha_barrier_store();
PopSetNextPrev(t) ==
    /\ pc[t] = "pop_next"
    /\ Store(t, loc[t].n2, "p", lh)
    /\ Goto(t, "pop_el_p")
    /\ UNCHANGED <<loc, members, dup, auxvars>>

\* (n)->p = (n);
PopInitElPrev(t) ==
    /\ pc[t] = "pop_el_p"
    /\ Store(t, loc[t].n, "p", loc[t].n)
    /\ Goto(t, "pop_el_n")
    /\ UNCHANGED <<loc, members, dup, auxvars>>

\* (n)->n = (n); __ha_barrier_store(); _ret = LIST_ELEM(n, pt, el); break;
PopInitElNext(t) ==
    /\ pc[t] = "pop_el_n"
    /\ Store(t, loc[t].n, "n", loc[t].n)
    /\ Removed(loc[t].n)
    /\ loc' = [loc EXCEPT ![t].ret = loc[t].n]
    /\ Goto(t, "pop_ret")
    /\ UNCHANGED auxvars

\* (_ret); the value of the statement expression goes to the caller
PopReturn(t) ==
    /\ pc[t] = "pop_ret"
    /\ Return(t)
    /\ UNCHANGED <<mem, owner, held, members, dup, auxvars>>

LIST_POP_LOCKED(t) ==
    \/ PopClaimHead(t)
    \/ PopEmpty(t)
    \/ PopClaimElPrev(t)
    \/ PopClaimElNext(t)
    \/ PopClaimNextPrev(t)
    \/ PopUndoElNext(t)
    \/ PopUndoElPrev(t)
    \/ PopUndoHead(t)
    \/ PopSetHead(t)
    \/ PopSetNextPrev(t)
    \/ PopInitElPrev(t)
    \/ PopInitElNext(t)
    \/ PopReturn(t)

\* ------------------------------------------------------- the locked system
Step(t) == LIST_ADD_LOCKED(t) \/ LIST_ADDQ_LOCKED(t) \/ LIST_DEL_LOCKED(t) \/ LIST_POP_LOCKED(t)

Uncounted == UNCHANGED <<calls, last, snap, scene>>

CallAdd(t, x) == StartAdd(t, x) /\ Uncounted
CallAddq(t, x) == StartAddq(t, x) /\ Uncounted
CallDel(t, x) == StartDel(t, x) /\ Uncounted
CallPop(t) == StartPop(t) /\ Uncounted

Next ==
    \/ \E t \in Threads, x \in Elems : CallAdd(t, x)
    \/ \E t \in Threads, x \in Elems : CallAddq(t, x)
    \/ \E t \in Threads, x \in Elems : CallDel(t, x)
    \/ \E t \in Threads : CallPop(t)
    \/ \E t \in Threads : Step(t)

\* threads calling the locked macros on one shared head, within the usage contract
Spec == Init /\ [][Next]_vars

\* every thread inside a locked macro keeps running: preemptible OS threads, no
\* thread is suspended for ever.  Calls are started at the callers' will.
FairSpec == Init /\ [][Next]_vars /\ \A t \in Threads : WF_vars(Step(t))

\* the same callers, with the record of what overlaps.  scene is the name of the
\* macro while a call that started with no other call in flight runs alone, "both"
\* once LIST_ADD_LOCKED and LIST_ADDQ_LOCKED run together on a list that had members
\* when the first of them started, and "other" after any other start.  last and snap
\* are the call that runs alone and the memory at its start, and as in Init otherwise.
NewScene(name) ==
    IF AllIdle
       THEN IF \A y \in Nodes : mem[y].n # LLIST_BUSY /\ mem[y].p # LLIST_BUSY
               THEN name
               ELSE "other"
       ELSE IF <<scene, name>> \in {<<"add", "addq">>, <<"addq", "add">>} /\ members # {}
               THEN "both"
               ELSE "other"
Traced(name, x) ==
    /\ scene' = NewScene(name)
    /\ last' = IF AllIdle THEN <<name, x>> ELSE <<"init", lh>>
    /\ snap' = IF AllIdle THEN mem ELSE [y \in Nodes |-> InitCell(y)]
    /\ UNCHANGED calls

TracedAdd(t, x) == StartAdd(t, x) /\ Traced("add", x)
TracedAddq(t, x) == StartAddq(t, x) /\ Traced("addq", x)
TracedDel(t, x) == StartDel(t, x) /\ Traced("del", x)
TracedPop(t) == StartPop(t) /\ Traced("pop", NULL)

NextTraced ==
    \/ \E t \in Threads, x \in Elems : TracedAdd(t, x)
    \/ \E t \in Threads, x \in Elems : TracedAddq(t, x)
    \/ \E t \in Threads, x \in Elems : TracedDel(t, x)
    \/ \E t \in Threads : TracedPop(t)
    \/ \E t \in Threads : Step(t)

TracedSpec == Init /\ [][NextTraced]_vars

\* a caller that issues LIST_DEL_LOCKED(x) at any time, also while another thread is
\* inside LIST_ADD_LOCKED(lh, x) or LIST_ADDQ_LOCKED(lh, x)
Counted == calls < MaxRaceCalls /\ calls' = calls + 1 /\ UNCHANGED <<last, snap, scene>>

RaceAdd(t, x) == StartAdd(t, x) /\ Counted
RaceAddq(t, x) == StartAddq(t, x) /\ Counted
RaceDel(t, x) == StartDelAny(t, x) /\ Counted
RacePop(t) == StartPop(t) /\ Counted

NextRace ==
    \/ \E t \in Threads, x \in Elems : RaceAdd(t, x)
    \/ \E t \in Threads, x \in Elems : RaceAddq(t, x)
    \/ \E t \in Threads, x \in Elems : RaceDel(t, x)
    \/ \E t \in Threads : RacePop(t)
    \/ \E t \in Threads : Step(t)

RaceSpec == Init /\ [][NextRace]_vars

\* the callers of RaceSpec, with the record of which call runs alone
CountedTraced(name) ==
    /\ calls < MaxRaceCalls
    /\ calls' = calls + 1
    /\ scene' = NewScene(name)
    /\ UNCHANGED <<last, snap>>

RaceTracedAdd(t, x) == StartAdd(t, x) /\ CountedTraced("add")
RaceTracedAddq(t, x) == StartAddq(t, x) /\ CountedTraced("addq")
RaceTracedDel(t, x) == StartDelAny(t, x) /\ CountedTraced("del")
RaceTracedPop(t) == StartPop(t) /\ CountedTraced("pop")

NextRaceTraced ==
    \/ \E t \in Threads, x \in Elems : RaceTracedAdd(t, x)
    \/ \E t \in Threads, x \in Elems : RaceTracedAddq(t, x)
    \/ \E t \in Threads, x \in Elems : RaceTracedDel(t, x)
    \/ \E t \in Threads : RaceTracedPop(t)
    \/ \E t \in Threads : Step(t)

RaceTracedSpec == Init /\ [][NextRaceTraced]_vars

\* ---------------------------------------------- the unsynchronized macros
\* m with the slot s of the cell at x set to v
Set(m, x, s, v) == [m EXCEPT ![x][s] = v]

\* (l)->n = (l)->p = (l)
LIST_INIT(m, l) == Set(Set(m, l, "p", l), l, "n", l)

\* mutant: the element goes to the end of the list, as with LIST_ADDQ
LIST_ADD_AtTail(m, h, e) ==
    LET m1 == Set(m, e, "p", m[h].p)
        m2 == Set(m1, h, "p", e)
        m3 == Set(m2, m1[e].p, "n", e)
    IN  Set(m3, e, "n", h)

\* (el)->n = (lh)->n; (el)->n->p = (lh)->n = (el); (el)->p = (lh);
LIST_ADD(m, h, e) ==
    LET m1 == Set(m, e, "n", m[h].n)
        m2 == Set(m1, h, "n", e)
        m3 == Set(m2, m1[e].n, "p", e)
    IN  Set(m3, e, "p", h)

\* mutant: the old last element's n is not set to el
LIST_ADDQ_NoBackLink(m, h, e) ==
    LET m1 == Set(m, e, "p", m[h].p)
        m2 == Set(m1, h, "p", e)
    IN  Set(m2, e, "n", h)

\* (el)->p = (lh)->p; (el)->p->n = (lh)->p = (el); (el)->n = (lh);
LIST_ADDQ(m, h, e) ==
    LET m1 == Set(m, e, "p", m[h].p)
        m2 == Set(m1, h, "p", e)
        m3 == Set(m2, m1[e].p, "n", e)
    IN  Set(m3, e, "n", h)

\* mutant: the element is reinitialised as well, as with LIST_DEL_INIT
LIST_DEL_Reinit(m, e) ==
    LET m1 == Set(m, m[e].n, "p", m[e].p)
        m2 == Set(m1, m1[e].p, "n", m1[e].n)
    IN  Set(Set(m2, e, "p", e), e, "n", e)

\* mutant: only the successor is rewired
LIST_DEL_HalfUnlink(m, e) == Set(m, m[e].n, "p", m[e].p)

\* (el)->n->p = (el)->p; (el)->p->n = (el)->n;
LIST_DEL(m, e) ==
    LET m1 == Set(m, m[e].n, "p", m[e].p)
    IN  Set(m1, m1[e].p, "n", m1[e].n)

\* typeof(el) __ret = (el); ... (__ret): the value of LIST_DEL(el)
LIST_DEL_Value(e) == e

\* mutant: the element is unlinked and not reinitialised
LIST_DEL_INIT_NoInit(m, e) ==
    LET vn == m[e].n
        vp == m[e].p
        m1 == Set(m, vn, "p", vp)
    IN  Set(m1, vp, "n", vn)

\* __n = __ret->n; __p = __ret->p; __n->p = __p; __p->n = __n; __ret->n = __ret->p = __ret;
LIST_DEL_INIT(m, e) ==
    LET vn == m[e].n
        vp == m[e].p
        m1 == Set(m, vn, "p", vp)
        m2 == Set(m1, vp, "n", vn)
    IN  Set(Set(m2, e, "p", e), e, "n", e)

\* ((lh)->n == (lh))
LIST_ISEMPTY(m, h) == m[h].n = h

\* mutant: the element counts as added only if its successor points back at it
LIST_ADDED_Linked(m, e) == m[e].n # e /\ m[m[e].n].p = e

\* ((el)->n != (el))
LIST_ADDED(m, e) == m[e].n # e

\* for ( ; &item->member != (list_head); item = LIST_ELEM(item->member.n, ...)):
\* the items the body sees, in order.  A walk that does not come back to the head
\* is cut after MaxVisits items, more than any list holds.
MaxVisits == Cardinality(Nodes) + 1
RECURSIVE list_for_each_entry_from(_, _, _, _)
list_for_each_entry_from(m, h, item, fuel) ==
    IF item = h \/ fuel = 0
       THEN <<>>
       ELSE <<item>> \o list_for_each_entry_from(m, h, m[item].n, fuel - 1)

\* for (item = LIST_ELEM((list_head)->n, ...); &item->member != (list_head); ...)
list_for_each_entry(m, h) == list_for_each_entry_from(m, h, m[h].n, MaxVisits)

\* a loop body that removes the current item with LIST_DEL if it is in D and with
\* LIST_DEL_INIT if it is in I
RemoveCurrent(m, item, D, I) ==
    IF item \in D THEN LIST_DEL(m, item)
    ELSE IF item \in I THEN LIST_DEL_INIT(m, item)
    ELSE m

\* mutant: the next item is read from the current one after the body ran, as in
\* list_for_each_entry
RECURSIVE SafeLoopRereads(_, _, _, _, _, _, _)
SafeLoopRereads(m, h, item, back, D, I, fuel) ==
    IF item = h \/ fuel = 0
       THEN [seen |-> <<>>, mem |-> m]
       ELSE LET m1 == RemoveCurrent(m, item, D, I)
                rest == SafeLoopRereads(m1, h, m1[item].n, back, D, I, fuel - 1)
            IN  [seen |-> <<item>> \o rest.seen, mem |-> rest.mem]

\* for (...; &item->member != (list_head); item = back, back = LIST_ELEM(back->member.n, ...))
\* with the body RemoveCurrent: the items the body was run on and the memory it leaves
RECURSIVE SafeLoop(_, _, _, _, _, _, _)
SafeLoop(m, h, item, back, D, I, fuel) ==
    IF item = h \/ fuel = 0
       THEN [seen |-> <<>>, mem |-> m]
       ELSE LET m1 == RemoveCurrent(m, item, D, I)
                rest == SafeLoop(m1, h, back, m1[back].n, D, I, fuel - 1)
            IN  [seen |-> <<item>> \o rest.seen, mem |-> rest.mem]

\* for (back = LIST_ELEM(item->member.n, ...); ...): the traversal from a given item
list_for_each_entry_safe_from(m, h, item, D, I) ==
    SafeLoop(m, h, item, m[item].n, D, I, MaxVisits)

\* for (item = LIST_ELEM((list_head)->n, ...), back = LIST_ELEM(item->member.n, ...); ...)
list_for_each_entry_safe(m, h, D, I) == list_for_each_entry_safe_from(m, h, m[h].n, D, I)

\* one caller at a time uses the unsynchronized macros on the list: inserts of
\* detached nodes, removals of members, LIST_INIT of a node that LIST_DEL left stale
CanInsert(x) == x \notin members /\ Detached(x) /\ inserts < MaxSeqOps

SeqAdd(x) ==
    /\ CanInsert(x)
    /\ mem' = LIST_ADD(mem, lh, x)
    /\ members' = members \cup {x}
    /\ inserts' = inserts + 1
    /\ last' = <<"add", x>>
    /\ snap' = mem
    /\ log' = Append(log, <<"add", x>>)
    /\ seen' = <<>>
    /\ UNCHANGED <<pc, loc, owner, held, dup, calls, scene, removals>>

SeqAddq(x) ==
    /\ CanInsert(x)
    /\ mem' = LIST_ADDQ(mem, lh, x)
    /\ members' = members \cup {x}
    /\ inserts' = inserts + 1
    /\ last' = <<"addq", x>>
    /\ snap' = mem
    /\ log' = Append(log, <<"addq", x>>)
    /\ seen' = <<>>
    /\ UNCHANGED <<pc, loc, owner, held, dup, calls, scene, removals>>

SeqDel(x) ==
    /\ x \in members
    /\ mem' = LIST_DEL(mem, x)
    /\ members' = members \ {x}
    /\ removals' = removals + 1
    /\ last' = <<"del", LIST_DEL_Value(x)>>
    /\ snap' = mem
    /\ log' = <<>>
    /\ seen' = <<>>
    /\ UNCHANGED <<pc, loc, owner, held, dup, calls, scene, inserts>>

\* last records "round_trip" when LIST_DEL_INIT(x) directly follows the insert of x
SeqDelInit(x) ==
    /\ x \in members
    /\ mem' = LIST_DEL_INIT(mem, x)
    /\ members' = members \ {x}
    /\ removals' = removals + 1
    /\ last' = IF last \in {<<"add", x>>, <<"addq", x>>}
                  THEN <<"round_trip", x>>
                  ELSE <<"del_init", x>>
    /\ log' = <<>>
    /\ seen' = <<>>
    /\ UNCHANGED <<pc, loc, owner, held, dup, calls, scene, inserts, snap>>

SeqInit(x) ==
    /\ x \notin members
    /\ ~Detached(x)
    /\ mem' = LIST_INIT(mem, x)
    /\ last' = <<"init", x>>
    /\ seen' = <<>>
    /\ UNCHANGED <<pc, loc, owner, held, members, dup, calls, scene, inserts, removals, snap, log>>

\* the elements of a sequence
Range(q) == {q[i] : i \in 1..Len(q)}

\* a delete-safe traversal from the first element or from a member, whose body
\* removes the members in D with LIST_DEL and those in I with LIST_DEL_INIT
SeqSweep(start, D, I) ==
    /\ start = mem[lh].n \/ start \in members
    /\ D \cap I = {}
    /\ LET r == list_for_each_entry_safe_from(mem, lh, start, D, I)
           gone == Range(r.seen) \cap (D \cup I)
       IN  /\ mem' = r.mem
           /\ seen' = r.seen
           /\ members' = members \ gone
           /\ removals' = removals + Cardinality(gone)
           /\ log' = IF gone = {} THEN log ELSE <<>>
    /\ last' = <<"sweep", start>>
    /\ snap' = mem
    /\ UNCHANGED <<pc, loc, owner, held, dup, calls, scene, inserts>>

NextSeq ==
    \/ \E x \in Elems : SeqAdd(x)
    \/ \E x \in Elems : SeqAddq(x)
    \/ \E x \in Elems : SeqDel(x)
    \/ \E x \in Elems : SeqDelInit(x)
    \/ \E x \in Elems : SeqInit(x)

SeqSpec == Init /\ [][NextSeq]_vars

\* one caller builds the list with the unsynchronized inserts and removes from it
\* inside delete-safe traversals
NextIter ==
    \/ \E x \in Elems : SeqAdd(x)
    \/ \E x \in Elems : SeqAddq(x)
    \/ \E x \in Elems : SeqInit(x)
    \/ \E start \in Nodes, D \in SUBSET members, I \in SUBSET members : SeqSweep(start, D, I)

IterSpec == Init /\ [][NextIter]_vars

\* ------------------------------------------------------------ list shape
NoBusy == \A x \in Nodes : mem[x].n # LLIST_BUSY /\ mem[x].p # LLIST_BUSY

\* the node reached from x by following n for k steps (a busy slot ends the walk)
RECURSIVE Walk(_, _)
Walk(x, k) == IF k = 0 \/ x = LLIST_BUSY THEN x ELSE Walk(mem[x].n, k - 1)

Reachable == {Walk(lh, k) : k \in 0..Cardinality(Nodes)} \ {LLIST_BUSY}
Circular == \E k \in 1..Cardinality(Nodes) : Walk(lh, k) = lh
WellLinked(x) == mem[mem[x].n].p = x /\ mem[mem[x].p].n = x
DoublyLinked == \A x \in Reachable : WellLinked(x)

\* the first statement of while (1), the statements of the rollback branches, and
\* the statements that are an _HA_ATOMIC_XCHG
TopPcs == {"add_n", "addq_p", "del_n", "pop_n"}
UndoPcs == {"add_undo", "addq_undo", "del_undo_p2", "del_undo_p", "del_undo_n",
            "pop_undo_n", "pop_undo_p", "pop_undo_h"}
ClaimPcs == TopPcs \cup {"add_p", "addq_n", "del_p", "del_p2", "del_n2", "pop_p", "pop_n2",
                         "pop_p2"}

\* the slots t claimed and did not store back, and the slots that hold LLIST_BUSY
Owned(t) == {s \in Slots : t \in owner[s]}
BusySlots == {s \in Slots : mem[s[1]][s[2]] = LLIST_BUSY}

\* --------------------------------------------------------------- claims
\* C1: whenever no locked call is in flight, no slot holds LLIST_BUSY, following n
\* from the head returns to the head, and x.n.p == x and x.p.n == x for the head and
\* every node reachable from it.
C1_QuiescentListWellFormed == AllIdle => NoBusy /\ Circular /\ DoublyLinked

\* a quiescent three-element list whose order needed both LIST_ADD_LOCKED and
\* LIST_ADDQ_LOCKED, or a removal in between
C1_Witness ==
    /\ AllIdle
    /\ Reachable = Nodes
    /\ mem[lh].n = lh + 2
    /\ mem[lh].p = lh + 1

\* C2: no node is popped or removed twice or without having been a member, and with
\* no call in flight the nodes reachable from the head are exactly the nodes whose
\* insertion completed minus those removed by LIST_DEL_LOCKED or LIST_POP_LOCKED.
C2_NoLostUpdate == dup = {} /\ (AllIdle => Reachable \ {lh} = members)

\* LIST_POP_LOCKED has just returned the node that another thread's LIST_DEL_LOCKED
\* is trying to remove
C2_Witness ==
    \E t, u \in Threads :
        /\ pc[t] = "pop_ret" /\ loc[t].ret \in Elems
        /\ pc[u] \in DelPcs /\ loc[u].el = loc[t].ret
        /\ members # {}

\* C3: (as claimed) also when LIST_DEL_LOCKED(X) runs while X is being inserted, once
\* all calls have returned no slot is busy, the list is circular and doubly
\* consistent, and every node is a well-linked member or detached.
C3_RaceLeavesListWellFormed ==
    AllIdle => /\ NoBusy /\ Circular /\ DoublyLinked
               /\ \A x \in Elems : x \in Reachable \/ Detached(x)

\* C4: every slot has at most one owner, and every store of a non-busy value into a
\* slot of a linked node is made by the thread that owns the slot.
Shared(x) == x = lh \/ \E y \in Nodes \ {x} : mem[y].n = x \/ mem[y].p = x
OneOwner == \A s \in Slots : Cardinality(owner[s]) <= 1
OwnedStore ==
    \A x \in Nodes, s \in SlotNames :
        (mem'[x][s] # mem[x][s] /\ mem'[x][s] # LLIST_BUSY /\ Shared(x))
            => \E t \in owner[<<x, s>>] : pc'[t] # pc[t]
C4_SlotMutualExclusion == [](OneOwner) /\ [][OwnedStore]_vars

\* two threads contend: one owns head.n, the other owns a slot of the first element
C4_Witness ==
    \E t, u \in Threads :
        /\ t # u
        /\ owner[<<lh, "n">>] = {t}
        /\ \E x \in Elems : owner[<<x, "p">>] = {u} /\ pc[t] = "add_undo"

\* C5: no pair of non-busy slots exposes a half-updated link: if x.n == y and y.p is
\* not busy then y.p == x, and if x.p == y and y.n is not busy then y.n == x.
C5_NoHalfLink ==
    \A x, y \in Nodes :
        x # y =>
            /\ (mem[x].n = y /\ mem[y].p # LLIST_BUSY => mem[y].p = x)
            /\ (mem[x].p = y /\ mem[y].n # LLIST_BUSY => mem[y].n = x)

\* an insertion at the head is half way: the new node points at its neighbours and
\* the old first element already points back at it, while head.n is still busy
C5_Witness ==
    \E t \in Threads :
        /\ pc[t] = "add_link_p"
        /\ mem[loc[t].n].p = loc[t].el
        /\ loc[t].n # lh
        /\ mem[lh].n = LLIST_BUSY

\* C6: LIST_POP_LOCKED takes the empty branch only after claiming head.n == head;
\* on that branch it writes head.n and no other slot (first LLIST_BUSY, then head
\* again), returns NULL and leaves head.n == head.p == head when head.p was head;
\* it returns NULL only if the value it claimed from head.n was the head.
PopEmptyFrame ==
    \A t \in Threads :
        /\ (pc[t] = "pop_n" /\ mem[lh].n = lh /\ pc'[t] # pc[t])
               => /\ pc'[t] = "pop_empty"
                  /\ mem' = [mem EXCEPT ![lh].n = LLIST_BUSY]
        /\ (pc[t] = "pop_empty" /\ pc'[t] # pc[t])
               => /\ pc'[t] = "pop_ret"
                  /\ loc'[t].ret = NULL
                  /\ mem' = [mem EXCEPT ![lh].n = lh]
                  /\ members' = members
                  /\ (mem[lh].p = lh => mem'[lh] = InitCell(lh))
NullOnlyIfEmpty ==
    \A t \in Threads :
        /\ pc[t] = "pop_empty" => loc[t].n = lh
        /\ pc[t] = "pop_ret" /\ loc[t].ret = NULL => loc[t].n = lh
C6_PopEmpty == [](NullOnlyIfEmpty) /\ [][PopEmptyFrame]_vars

\* LIST_POP_LOCKED returned NULL while another thread's insertion was held up by it
C6_Witness ==
    \E t, u \in Threads :
        /\ pc[t] = "pop_ret" /\ loc[t].ret = NULL
        /\ pc[u] = "addq_undo"
        /\ mem[lh].n = lh

\* C7: (as claimed) under fair scheduling every started locked call returns.
C7_EveryCallReturns == \A t \in Threads : (pc[t] # "idle") ~> (pc[t] = "idle")

\* the slot that the next _HA_ATOMIC_XCHG of t is about to claim
NextClaim(t) ==
    CASE pc[t] \in {"add_n", "pop_n"} -> <<lh, "n">>
      [] pc[t] = "addq_p" -> <<lh, "p">>
      [] pc[t] \in {"add_p", "del_n2", "pop_p"} -> <<loc[t].n, "p">>
      [] pc[t] \in {"addq_n", "del_p2"} -> <<loc[t].p, "n">>
      [] pc[t] = "del_n" -> <<loc[t].el, "n">>
      [] pc[t] = "del_p" -> <<loc[t].el, "p">>
      [] pc[t] = "pop_n2" -> <<loc[t].n, "n">>
      [] pc[t] = "pop_p2" -> <<loc[t].n2, "p">>
      [] OTHER -> <<NULL, "n">>
FindsBusy(t) == NextClaim(t)[1] # NULL /\ mem[NextClaim(t)[1]][NextClaim(t)[2]] = LLIST_BUSY

\* C7 (amended): under fair scheduling every started locked call returns or comes to
\* an exchange on a slot that holds LLIST_BUSY, where it rolls back and retries.
C7_ReturnsOrFindsBusy ==
    \A t \in Threads : (pc[t] # "idle") ~> (pc[t] = "idle" \/ FindsBusy(t))

\* two calls each hold a slot the other needs: both are about to read LLIST_BUSY
C7_Witness ==
    \E t, u \in Threads :
        /\ t # u
        /\ pc[t] = "pop_n2" /\ pc[u] = "del_p"
        /\ FindsBusy(t) /\ FindsBusy(u)

\* C8: after every unsynchronized call head.n.p == head, every node reachable from
\* the head has x.n.p == x and x.p.n == x, and following n from the head returns to
\* the head.
C8_SeqListWellFormed ==
    /\ NoBusy
    /\ mem[mem[lh].n].p = lh
    /\ Circular
    /\ DoublyLinked

\* a member was removed from the middle of a three-element list with plain LIST_DEL
C8_Witness ==
    /\ last[1] = "del"
    /\ Cardinality(members) = 2
    /\ mem[last[2]].n \in members
    /\ mem[last[2]].p \in members

\* C9: LIST_ISEMPTY(head) is true iff as many unsynchronized removals as inserts have
\* completed, that is iff no node is a member.
C9_EmptyIffBalanced ==
    /\ LIST_ISEMPTY(mem, lh) <=> (inserts = removals)
    /\ LIST_ISEMPTY(mem, lh) <=> (members = {})

\* the list is empty again after two inserts and two removals
C9_Witness == LIST_ISEMPTY(mem, lh) /\ inserts = 2 /\ removals = 2

\* C10: LIST_ADD(H, A) or LIST_ADDQ(H, A) directly followed by LIST_DEL_INIT(A)
\* restores every slot of every node to its value before the insert, and A is
\* detached; an empty H is empty again.
C10_RoundTrip ==
    last[1] = "round_trip" =>
        /\ mem = snap
        /\ Detached(last[2])
        /\ (LIST_ISEMPTY(snap, lh) => LIST_ISEMPTY(mem, lh))

\* the round trip was made on a list that held two other members
C10_Witness == last[1] = "round_trip" /\ Cardinality(members) = 2

\* the round trip was made on an empty list
C10_WitnessEmpty == last[1] = "round_trip" /\ members = {}

\* the nodes of the logged inserts, in call order and in reverse call order
LogNodes == [i \in 1..Len(log) |-> log[i][2]]
LogNodesReversed == [i \in 1..Len(log) |-> log[Len(log) + 1 - i][2]]
LogAll(name) == \A i \in 1..Len(log) : log[i][1] = name

\* the list was empty when the first logged insert was made
LogFromEmpty == Len(log) = Cardinality(members)

\* C11: LIST_ADD(H, X) makes X the first item of list_for_each_entry and LIST_ADDQ(H, X)
\* the last, the items before the insert keeping their order; nodes inserted into an
\* empty list only with LIST_ADDQ are traversed in call order, and only with LIST_ADD
\* in reverse call order.
C11_OrderPreserved ==
    LET order == list_for_each_entry(mem, lh)
        before == list_for_each_entry(snap, lh)
    IN  /\ last[1] = "add" => order = <<last[2]>> \o before
        /\ last[1] = "addq" => order = Append(before, last[2])
        /\ (LogFromEmpty /\ LogAll("addq")) => order = LogNodes
        /\ (LogFromEmpty /\ LogAll("add")) => order = LogNodesReversed

\* every element was inserted with LIST_ADD, the highest address first
C11_Witness ==
    /\ LogFromEmpty
    /\ LogAll("add")
    /\ LogNodes = [i \in 1..NumElems |-> lh + NumElems + 1 - i]
    /\ list_for_each_entry(mem, lh) = [i \in 1..NumElems |-> lh + i]

\* LIST_ADDQ on a list of two members, after a removal changed the list
C11_WitnessMixed ==
    /\ last[1] = "addq"
    /\ removals > 0
    /\ Len(list_for_each_entry(snap, lh)) = 2
    /\ Len(list_for_each_entry(mem, lh)) = 3

\* the members among the items of a sequence, in its order
StillMembers(q) == LET IsMember(x) == x \in members IN SelectSeq(q, IsMember)

\* C12: a list_for_each_entry_safe (or _safe_from) traversal whose body removes the
\* current item, for any choice of the items removed, runs its body on exactly the
\* items that list_for_each_entry would have visited before the traversal, in that
\* order, each once; it stops at the head, and the items not removed are the list
\* afterwards, in the same order.
C12_SafeTraversal ==
    last[1] = "sweep" =>
        /\ seen = list_for_each_entry_from(snap, lh, last[2], MaxVisits)
        /\ Len(seen) <= NumElems
        /\ Cardinality(Range(seen)) = Len(seen)
        /\ list_for_each_entry(mem, lh) = StillMembers(list_for_each_entry(snap, lh))
        /\ Circular /\ DoublyLinked

\* a traversal of a three-element list removed the first and the last item, one with
\* LIST_DEL and one with LIST_DEL_INIT, and kept the middle one
C12_Witness ==
    /\ last = <<"sweep", snap[lh].n>>
    /\ Len(seen) = 3
    /\ members = {seen[2]}
    /\ Detached(seen[1]) /\ ~Detached(seen[3])

\* a traversal that started in the middle of the list removed every item it met
C12_WitnessFrom ==
    /\ last[1] = "sweep"
    /\ last[2] # snap[lh].n
    /\ Len(seen) = 2
    /\ Cardinality(members) = 1

\* C13: LIST_ADDED(x) is false right after LIST_INIT(x) and LIST_DEL_INIT(x), true
\* for every member of the list, and true right after LIST_DEL(x) although x is no
\* longer in the list; a node outside the list reports added iff it is not in the
\* state LIST_INIT leaves.
C13_AddedIffNextNotSelf ==
    /\ \A x \in members : LIST_ADDED(mem, x)
    /\ \A x \in Elems \ members : LIST_ADDED(mem, x) <=> ~Detached(x)
    /\ last[1] \in {"init", "del_init", "round_trip"} => ~LIST_ADDED(mem, last[2])
    /\ last[1] = "del" => LIST_ADDED(mem, last[2]) /\ last[2] \notin Reachable

\* the only member was removed with LIST_DEL: the list is empty and the node still
\* reports added
C13_Witness ==
    /\ last[1] = "del"
    /\ LIST_ISEMPTY(mem, lh)
    /\ LIST_ADDED(mem, last[2])
    /\ \E x \in Elems \ members : ~LIST_ADDED(mem, x) /\ inserts = 2

\* C14: (as claimed, for every use of the locked macros) a thread that reads LLIST_BUSY from an exchange changes no slot and goes to
\* its rollback branch or to the top of the loop; every step of a rollback branch
\* stores into one slot the thread had claimed the value it had read from it; a
\* thread at the top of its loop or outside a call owns no slot; and the slots that
\* hold LLIST_BUSY are never more than the slots owned by threads inside an attempt.
NoHoldAndWait == \A t \in Threads : pc[t] \in TopPcs \cup {"idle"} => Owned(t) = {}
BusyIsOwned ==
    Cardinality(BusySlots) <=
        Cardinality({s \in Slots : \E t \in owner[s] : pc[t] \notin TopPcs \cup {"idle"}})
BusyLeadsToRollback ==
    \A t \in Threads :
        (pc[t] \in ClaimPcs /\ FindsBusy(t) /\ pc'[t] # pc[t])
            => pc'[t] \in UndoPcs \cup TopPcs /\ mem' = mem
RollbackRestores ==
    \A t \in Threads :
        (pc[t] \in UndoPcs /\ pc'[t] # pc[t])
            => /\ \E s \in Slots : held[t][s] # NULL /\ held'[t][s] = NULL
               /\ \A s \in Slots :
                     (held[t][s] # NULL /\ held'[t][s] = NULL)
                         => mem'[s[1]][s[2]] = held[t][s]
               /\ \A s \in Slots : held[t][s] = NULL => mem'[s[1]][s[2]] = mem[s[1]][s[2]]
               /\ pc'[t] \in UndoPcs \cup TopPcs
C14_RollbackOnBusy ==
    [](NoHoldAndWait /\ BusyIsOwned) /\ [][BusyLeadsToRollback /\ RollbackRestores]_vars

\* LIST_DEL_LOCKED read LLIST_BUSY from its fourth exchange and has put back two of
\* the three slots it had claimed
C14_Witness ==
    \E t \in Threads :
        /\ pc[t] = "del_undo_n"
        /\ loc[t].p2 # NULL
        /\ mem[loc[t].p].n = loc[t].p2
        /\ mem[loc[t].el].p = loc[t].p
        /\ Owned(t) = {<<loc[t].el, "n">>}

\* no slot of another node holds x
Unpublished(x) == \A y \in Nodes \ {x} : mem[y].n # x /\ mem[y].p # x

\* C15: (as claimed, for every use of the locked macros) in LIST_ADD_LOCKED the value
\* claimed from n->p is the head; head.n holds LLIST_BUSY from the claim to the last
\* store; el->n and el->p are written while no slot of another node holds el; the
\* first slot that gets el is n->p, and the last store of the call writes el into
\* head.n.  In LIST_ADDQ_LOCKED the same with n and p exchanged: the value claimed
\* from p->n is the head and the last store writes el into head.p.
AddPublication(t) ==
    /\ pc[t] \in {"add_el_n", "add_el_p", "add_link_n", "add_link_p"} => loc[t].p = lh
    /\ pc[t] \in AddPcs \ {"add_n"} => mem[lh].n = LLIST_BUSY
    /\ pc[t] \in AddPcs \ {"add_link_p"} => Unpublished(loc[t].el)
    /\ pc[t] = "add_link_n" => mem[loc[t].el] = [n |-> loc[t].n, p |-> loc[t].p]
AddqPublication(t) ==
    /\ pc[t] \in {"addq_el_n", "addq_el_p", "addq_link_p", "addq_link_n"} => loc[t].n = lh
    /\ pc[t] \in AddqPcs \ {"addq_p"} => mem[lh].p = LLIST_BUSY
    /\ pc[t] \in AddqPcs \ {"addq_link_n"} => Unpublished(loc[t].el)
    /\ pc[t] = "addq_link_p" => mem[loc[t].el] = [n |-> loc[t].n, p |-> loc[t].p]
PublishingStores ==
    \A t \in Threads :
        /\ (pc[t] = "add_link_n" /\ pc'[t] # pc[t])
               => pc'[t] = "add_link_p" /\ mem' = [mem EXCEPT ![loc[t].n].p = loc[t].el]
        /\ (pc[t] = "add_link_p" /\ pc'[t] # pc[t])
               => pc'[t] = "idle" /\ mem' = [mem EXCEPT ![lh].n = loc[t].el]
        /\ (pc[t] = "addq_link_p" /\ pc'[t] # pc[t])
               => pc'[t] = "addq_link_n" /\ mem' = [mem EXCEPT ![loc[t].p].n = loc[t].el]
        /\ (pc[t] = "addq_link_n" /\ pc'[t] # pc[t])
               => pc'[t] = "idle" /\ mem' = [mem EXCEPT ![lh].p = loc[t].el]
C15_PublicationOrder ==
    /\ [](\A t \in Threads : AddPublication(t) /\ AddqPublication(t))
    /\ [][PublishingStores]_vars

\* LIST_ADD_LOCKED on a list with members is one store from the end: the old first
\* element already points back at el and head.n is still busy, while another thread
\* is inside LIST_ADDQ_LOCKED
C15_Witness ==
    \E t, u \in Threads :
        /\ pc[t] = "add_link_p"
        /\ loc[t].n \in members
        /\ mem[loc[t].n].p = loc[t].el
        /\ pc[u] \in AddqPcs \ {"addq_p"}

\* the slots LIST_ADD_LOCKED or LIST_ADDQ_LOCKED has exchanged in its current pass
InsertClaims(t) ==
    (IF pc[t] \in AddPcs \ {"add_n"} THEN {<<lh, "n">>} ELSE {})
    \cup (IF pc[t] \in AddPcs \ {"add_n", "add_p", "add_undo"} THEN {<<loc[t].n, "p">>} ELSE {})
    \cup (IF pc[t] \in AddqPcs \ {"addq_p"} THEN {<<lh, "p">>} ELSE {})
    \cup (IF pc[t] \in AddqPcs \ {"addq_p", "addq_n", "addq_undo"}
             THEN {<<loc[t].p, "n">>} ELSE {})

\* C16: while one LIST_ADD_LOCKED and one LIST_ADDQ_LOCKED, called on a list with at
\* least one member and with nothing else in flight, run concurrently, neither is
\* about to exchange a busy slot or is in a rollback branch, the first element the
\* one claims and the last element the other claims are not the head, the slots
\* they exchange are disjoint, and neither goes back to the top of its loop.
Opposite == scene = "both" \/ (scene \in {"add", "addq"} /\ members # {})
EndsApart ==
    Opposite =>
        \A t \in Threads :
            /\ ~FindsBusy(t)
            /\ pc[t] \notin UndoPcs
            /\ pc[t] \in AddPcs \ {"add_n"} => loc[t].n # lh
            /\ pc[t] \in AddqPcs \ {"addq_p"} => loc[t].p # lh
            /\ \A u \in Threads \ {t} : InsertClaims(t) \cap InsertClaims(u) = {}
SinglePass ==
    Opposite =>
        \A t \in Threads : pc[t] \notin TopPcs \cup {"idle"} => pc'[t] \notin TopPcs
C16_OppositeEndsDisjoint == [](EndsApart) /\ [][SinglePass]_vars

\* both insertions are one store from their end on a list of one member: the member
\* is the first and the last element, and each call has claimed one of its slots
C16_Witness ==
    \E t, u \in Threads :
        /\ scene = "both"
        /\ Cardinality(members) = 1
        /\ pc[t] = "add_link_p" /\ pc[u] = "addq_link_n"
        /\ loc[t].n = loc[u].p

\* the slots whose value differs between two memories
Changed(m1, m2) == {sl \in Slots : m1[sl[1]][sl[2]] # m2[sl[1]][sl[2]]}

\* C17: LIST_DEL(x) on a member changes exactly the two slots x.p->n, which gets the
\* old x.n, and x.n->p, which gets the old x.p; x.n and x.p keep their values, no
\* other slot changes, and the value of the call is x, which is out of the list.
C17_DelFrame ==
    last[1] = "del" =>
        LET x == last[2]
            nx == snap[x].n
            pv == snap[x].p
        IN  /\ Changed(snap, mem) = {<<pv, "n">>, <<nx, "p">>}
            /\ mem[pv].n = nx /\ mem[nx].p = pv
            /\ mem[x] = snap[x]
            /\ mem[x].n # x /\ mem[x].p # x
            /\ x \notin members /\ members \cup {x} = Range(list_for_each_entry(snap, lh))

\* LIST_DEL took the middle one of three members: its former neighbours now point at
\* each other and it still points at both
C17_Witness ==
    /\ last[1] = "del"
    /\ snap[last[2]].n \in Elems /\ snap[last[2]].p \in Elems
    /\ Changed(snap, mem) = {<<snap[last[2]].p, "n">>, <<snap[last[2]].n, "p">>}
    /\ mem[last[2]] = snap[last[2]]

\* LIST_DEL took the only member: the two slots that changed are head.n and head.p
C17_WitnessSingle ==
    /\ last[1] = "del"
    /\ Changed(snap, mem) = {<<lh, "n">>, <<lh, "p">>}
    /\ mem[last[2]] = InitCell(lh)

\* what LIST_POP_LOCKED does to a list that no other call touches: nothing to an empty
\* list, LIST_DEL_INIT of the first element otherwise
PopAlone(m) == IF LIST_ISEMPTY(m, lh) THEN m ELSE LIST_DEL_INIT(m, m[lh].n)

\* C18: a locked call that ran from its start to its return with no other call in
\* flight leaves the memory its unsynchronized counterpart computes from the memory
\* at its start: LIST_ADD for LIST_ADD_LOCKED, LIST_ADDQ for LIST_ADDQ_LOCKED,
\* LIST_DEL_INIT(el) for LIST_DEL_LOCKED(el), and for LIST_POP_LOCKED
\* LIST_DEL_INIT of the first element, which it returns, or nothing and NULL on an
\* empty list.
C18_LockedAsUnlocked ==
    /\ (AllIdle /\ scene = "add") => mem = LIST_ADD(snap, lh, last[2])
    /\ (AllIdle /\ scene = "addq") => mem = LIST_ADDQ(snap, lh, last[2])
    /\ (AllIdle /\ scene = "del") => mem = LIST_DEL_INIT(snap, last[2])
    /\ (AllIdle /\ scene = "pop") => mem = PopAlone(snap)
    /\ \A t \in Threads :
          (pc[t] = "pop_ret" /\ scene = "pop")
              => /\ mem = PopAlone(snap)
                 /\ loc[t].ret = IF LIST_ISEMPTY(snap, lh) THEN NULL ELSE snap[lh].n

\* LIST_POP_LOCKED ran alone on a list of two elements and is returning the first
C18_Witness ==
    \E t \in Threads :
        /\ pc[t] = "pop_ret" /\ scene = "pop"
        /\ loc[t].ret = snap[lh].n
        /\ snap[snap[lh].n].n = snap[lh].p
        /\ snap[lh].p \in Elems \ {loc[t].ret}

\* LIST_DEL_LOCKED ran alone on the middle one of three elements
C18_WitnessDel ==
    /\ AllIdle /\ scene = "del"
    /\ snap[last[2]].n \in Elems /\ snap[last[2]].p \in Elems
    /\ Detached(last[2])

\* LIST_ADDQ_LOCKED ran alone on a list of two elements
C18_WitnessAddq ==
    /\ AllIdle /\ scene = "addq"
    /\ Cardinality(members) = 3
    /\ mem[lh].p = last[2]

\* C19: (as claimed, for every use of the locked macros) no node is unlinked twice,
\* whether by two LIST_DEL_LOCKED or by LIST_DEL_LOCKED and LIST_POP_LOCKED;
\* LIST_DEL_LOCKED(X) on an X that is not in the list exchanges and writes no slot
\* but X.n and X.p, leaves X in them, and changes no membership; when
\* LIST_DEL_LOCKED(X) or the LIST_POP_LOCKED that took X returns, X is not a member,
\* no other node points at X, and X.n and X.p hold X or the LLIST_BUSY of another
\* remover of X; with no call in flight the list is circular and doubly consistent
\* and every node outside it is detached.
DelOffListFrame ==
    \A t \in Threads :
        (pc[t] \in DelPcs /\ pc'[t] # pc[t] /\ loc[t].el \notin members)
            => /\ Changed(mem, mem') \subseteq {<<loc[t].el, "n">>, <<loc[t].el, "p">>}
               /\ pc'[t] \notin {"del_p2", "del_n2", "del_undo_p2", "del_undo_p"}
               /\ mem'[loc[t].el].n \in {loc[t].el, LLIST_BUSY}
               /\ mem'[loc[t].el].p \in {loc[t].el, LLIST_BUSY}
               /\ members' = members
RemoverReturns ==
    \A t \in Threads :
        LET x == IF pc[t] = "del_el_n" THEN loc[t].el ELSE loc[t].n
        IN  (pc[t] \in {"del_el_n", "pop_el_n"} /\ pc'[t] # pc[t])
                => /\ x \notin members'
                   /\ \A y \in Nodes \ {x} : mem'[y].n # x /\ mem'[y].p # x
                   /\ mem'[x].n \in {x, LLIST_BUSY} /\ mem'[x].p \in {x, LLIST_BUSY}
RemovedOnce ==
    /\ dup = {}
    /\ AllIdle => /\ Circular /\ DoublyLinked
                  /\ \A x \in Elems \ members : Detached(x) /\ Unpublished(x)
C19_DelIdempotent == [](RemovedOnce) /\ [][DelOffListFrame /\ RemoverReturns]_vars

\* two LIST_DEL_LOCKED race on the same member of a two-element list: one has
\* unlinked it and is about to reinitialise it, the other is about to exchange a
\* slot of it that is still busy
C19_Witness ==
    \E t, u \in Threads :
        /\ t # u /\ loc[t].el = loc[u].el
        /\ pc[t] = "del_el_n" /\ loc[t].n # loc[t].el
        /\ pc[u] \in {"del_n", "del_p"} /\ FindsBusy(u)
        /\ Cardinality(members) = 2

\* LIST_DEL_LOCKED(X) found X detached after LIST_POP_LOCKED had taken it
C19_WitnessPop ==
    \E t, u \in Threads :
        /\ pc[t] = "pop_ret" /\ loc[t].ret \in Elems
        /\ pc[u] = "del_unlink_n" /\ loc[u].el = loc[t].ret
        /\ loc[u].n = loc[u].el /\ loc[u].p = loc[u].el

\* C20: (for every use of the locked macros) with no call in flight no slot holds
\* LLIST_BUSY; and a call that starts when no slot holds LLIST_BUSY and no other call
\* is in flight, for as long as it runs alone, is never about to exchange a slot that
\* holds LLIST_BUSY, is in no rollback branch, moves to another statement at each
\* step and never back to the top of its loop: it returns after one pass, so no
\* state with all threads between calls blocks the operation called next.
SoloCall == scene \in {"add", "addq", "del", "pop"}
IdleUnblocked == AllIdle => BusySlots = {}
AloneNoBusy ==
    SoloCall => \A t \in Threads : ~FindsBusy(t) /\ pc[t] \notin UndoPcs
AloneOnePass ==
    SoloCall /\ scene' = scene =>
        \A t \in Threads :
            pc[t] # "idle" /\ pc'[t] # "idle" => pc'[t] # pc[t] /\ pc'[t] \notin TopPcs
C20_ProgressAlone == [](IdleUnblocked /\ AloneNoBusy) /\ [][AloneOnePass]_vars

\* a LIST_POP_LOCKED that runs alone on a list of two members has made all its four
\* exchanges and is about to store
C20_Witness ==
    \E t \in Threads :
        /\ scene = "pop"
        /\ pc[t] = "pop_head"
        /\ Cardinality(members) = 2
        /\ Cardinality(BusySlots) = 4
        /\ \A u \in Threads \ {t} : pc[u] = "idle"

====
